---- MODULE Spec2Model ----
(***************************************************************************)
(* Model of the parallax-ai analysis pipeline (py-agent):                  *)
(*   api.py              analyze_topic, _run_analysis_stream, _sse_generate*)
(*   core/agent.py       run_full_analysis, process_article                *)
(*   core/scraper_client fetch_articles                                    *)
(*   core/discovery.py   get_news_urls                                     *)
(*   core/database.py    the analysis_results table                        *)
(* Texts are modelled by their length, inference answers by small sets.    *)
(***************************************************************************)
EXTENDS Integers, Sequences, FiniteSets, TLC

\* ------------------------------------------------------------------ bounds
MaxItems == 2        \* longest scraper response / article batch
MaxRuns == 2         \* pipeline runs started one after another
MaxCollected == 2    \* links collected by discovery before deduplication
MaxBatch == 1        \* longest batch of a direct run_full_analysis call
MaxLaneBatch == 3    \* longest batch of the call that shows the two lanes
MaxStreamItems == 2  \* longest article list the streaming retrieval returns

Runs == {1, 2}       \* run slots (slot 2 is used by concurrent runs only)
Topics == {"T1", "T2"}
Urls == {"u1", "u2"}

\* ------------------------------------------------------- program constants
MinContent == 100    \* agent.py:98 and scraper_client.py:64
max_retries == 4
UrlCap == 18
PerQuery == 5        \* side_urls[:5]
MaxQueries == 4      \* queries[:4]
backoff == <<0, 5, 15, 25>>
HeartbeatStep == 3
HeartbeatCeiling == 92

Placeholder == "No articles found for this perspective."
BiasLabels == {"Left", "Center", "Right"}

\* ---------------------------------------------------------------- helpers
RECURSIVE SeqsUpTo(_, _)
SeqsUpTo(S, n) ==
    IF n = 0 THEN {<<>>}
    ELSE LET shorter == SeqsUpTo(S, n - 1)
         IN  shorter \cup {Append(s, x) : s \in {t \in shorter : Len(t) = n - 1}, x \in S}

\* ------------------------------------------------------------- the inputs
\* An article record as run_full_analysis reads it: lengths of the "content"
\* and "text" fields (0: missing or empty) and of str(article).
Art(u, c, t, s) == [url |-> u, content |-> c, text |-> t, repr |-> s]

\* Answers of the classification model: a structured {bias, summary}.
InferAnswers ==
    { [bias |-> "Left",  summary |-> "sL"],
      [bias |-> "Right", summary |-> "sR"],
      [bias |-> "Far",   summary |-> "sF"],
      [bias |-> "Left",  summary |-> ""] }

\* Article records handed to run_full_analysis by a direct caller.
ArticleUniverse ==
    { Art("u1", 101, 0, 151), Art("u1", 100, 0, 150), Art("u2", 101, 0, 151),
      Art("u2", 0, 101, 140), Art("u2", 0, 0, 100),   Art("u2", 0, 0, 101) }

\* ------------------------------------------------------------------ state
VARIABLES
    table,            \* rows of analysis_results, in insertion order
    runCount,         \* runs started so far
    apiPc,            \* per run: where the endpoint / caller is
    topic,            \* per run: the (stripped) topic
    urls,             \* per run: result of get_news_urls
    articles,         \* per run: result of fetch_articles
    attempt,          \* per run: fetch_articles' attempts made
    slept,            \* per run: time fetch_articles has slept
    data,             \* per run: the scraper response fetch_articles read last
    response,         \* per run: what the endpoint returned
    agPc,             \* per run: where run_full_analysis is
    valid_articles,   \* per run
    idx,              \* per run: index in valid_articles being processed
    results,          \* per run: list of ArticleAnalysis
    analysis,         \* per run: answer of the inference call in process_article
    cached_result,    \* per run: row loaded by the cache lookup session
    existing,         \* per run: row loaded by the save session
    narratives,       \* per run
    omission_report,  \* per run
    log,              \* per run: inference calls made, in order (history)
    startTable,       \* per run: the table when the run started (history)
    dropped,          \* per run: indices whose inference failed (history)
    store_errors,     \* per run: where a store operation raised, 0 for init_db (history)
    in_flight,        \* per run: indices whose chain.invoke was called and has not returned
    session,          \* per run: the Session process_article holds open
    streamPc,         \* where _run_analysis_stream is
    consPc,           \* where _sse_generate is
    out_queue,        \* the queue.Queue between them
    sent,             \* every item put on out_queue, in order (history)
    frames,           \* the data frames _sse_generate yielded
    scraped,          \* on_scrape_progress calls so far (current)
    current_pct,      \* the heartbeat's percentage
    analysis_done,    \* the threading.Event
    analysis_result_holder,
    analysis_error_holder,
    dPc,              \* get_news_urls called on its own: where the call is
    api_key,          \* whether the call has a search credential
    queries,          \* the queries generate_search_queries returned
    answers,          \* what the search answered to each query so far
    collected_urls,   \* the links collected query by query
    unique_urls       \* what get_news_urls returned

apiVars == <<apiPc, topic, urls, articles, attempt, slept, data, response>>
agentVars == <<agPc, valid_articles, idx, results, analysis, cached_result,
               existing, narratives, omission_report, log, startTable, dropped,
               store_errors, in_flight, session>>
streamVars == <<streamPc, consPc, out_queue, sent, frames, scraped, current_pct,
                analysis_done, analysis_result_holder, analysis_error_holder>>
discVars == <<dPc, api_key, queries, answers, collected_urls, unique_urls>>
vars == <<table, runCount, apiVars, agentVars, streamVars, discVars>>

NoAnalysis == [bias |-> "none", summary |-> "none"]
NoRow == [id |-> 0, topic |-> "", url |-> "", bias_rating |-> "", summary |-> "", content |-> 0]
NoNarratives == [Left |-> "", Right |-> ""]
NoResponse == [status |-> 0]

\* --------------------------------------------------------- core/database.py
Row(t, u, b, s, c) == [topic |-> t, url |-> u, bias_rating |-> b, summary |-> s, content |-> c]

\* select(AnalysisResult).where(AnalysisResult.url == url): ids of matching rows
Matching(tbl, u) == {i \in DOMAIN tbl : tbl[i].url = u}

\* A row as a session loads it: its primary key and column values.
Loaded(tbl, i) == [id |-> i, topic |-> tbl[i].topic, url |-> tbl[i].url,
                   bias_rating |-> tbl[i].bias_rating, summary |-> tbl[i].summary,
                   content |-> tbl[i].content]

\* ----------------------------------------------------------- core/agent.py
\* text = article.get("content") or article.get("text") or str(article)
ResolvedLen(a) == IF a.content > 0 THEN a.content
                  ELSE IF a.text > 0 THEN a.text
                  ELSE a.repr

\* if text and len(text) > 100
IsValid(a) == ResolvedLen(a) > 0 /\ ResolvedLen(a) > MinContent

ValidArticle(a) == [url |-> a.url, text |-> ResolvedLen(a)]

RECURSIVE FilterValid(_)
FilterValid(arts) ==
    IF arts = <<>> THEN <<>>
    ELSE IF IsValid(Head(arts)) THEN <<ValidArticle(Head(arts))>> \o FilterValid(Tail(arts))
         ELSE FilterValid(Tail(arts))

midpoint(valid) == Len(valid) \div 2
batch_a(valid) == SubSeq(valid, 1, midpoint(valid))
\* Mutant of batch_b: the slice starts one article late.
batch_b_Late(valid) == SubSeq(valid, midpoint(valid) + 2, Len(valid))

batch_b(valid) == SubSeq(valid, midpoint(valid) + 1, Len(valid))
ProcessingOrder(valid) == batch_a(valid) \o batch_b(valid)
Lane(valid, i) == IF i <= midpoint(valid) THEN "Versatile" ELSE "Scout"

\* Mutant of GroupOf: an unexpected label is kept as it is.
GroupOf_Keep(res) == res.bias

\* if res.bias in grouped_summaries ... else "Center"
GroupOf(res) == IF res.bias \in BiasLabels THEN res.bias ELSE "Center"

\* Mutant of grouped_summaries: every summary goes to every group.
grouped_summaries_Any(rs, b) == [i \in DOMAIN rs |-> rs[i].summary]

grouped_summaries(rs, b) ==
    LET keep == SelectSeq(rs, LAMBDA res : GroupOf(res) = b)
    IN  [i \in DOMAIN keep |-> keep[i].summary]

bias_counts(rs) ==
    [b \in BiasLabels |-> Cardinality({i \in DOMAIN rs : GroupOf(rs[i]) = b})]

SumCounts(bc) == bc["Left"] + bc["Center"] + bc["Right"]

Set(f, r, v) == [f EXCEPT ![r] = v]

CurrentArticle(r) == valid_articles[r][idx[r]]

Call(k, a, a2) == [kind |-> k, arg |-> a, arg2 |-> a2]

SynthText(b) == IF b = "Left" THEN "synthesized Left" ELSE "synthesized Right"

\* Mutant of ExitWith: the session is not closed when its block is left.
ExitWith_Leak(s) == s

\* Leaving "with Session(engine) as session": the session is closed, on a
\* normal exit, on a return and on an exception alike.
ExitWith(s) == "none"

\* chain.invoke is called for the article of index i.
Invoked(calls, i) == calls \cup {i}

\* Mutant of Returned: the call is not waited for.
Returned_Not(calls, i) == calls

\* chain.invoke has returned or raised for the article of index i.
Returned(calls, i) == calls \ {i}

\* Mutant of NextPc: step 2 follows the first article.
NextPc_Early(r) == "synth_left"

\* Leaving process_article: the next article of the two batches, or step 2.
NextPc(r) == IF idx[r] < Len(valid_articles[r]) THEN "lookup" ELSE "synth_left"

\* run_full_analysis up to the first process_article call: init_db, the chains,
\* the filter of valid articles and the split in two batches.
BeginAnalysis(r) ==
    /\ agPc[r] = "init"
    /\ LET valid == ProcessingOrder(FilterValid(articles[r]))
       IN  /\ valid_articles' = Set(valid_articles, r, valid)
           /\ agPc' = Set(agPc, r, IF valid = <<>> THEN "synth_left" ELSE "lookup")
    /\ idx' = Set(idx, r, 1)
    /\ results' = Set(results, r, <<>>)
    /\ startTable' = Set(startTable, r, table)
    /\ UNCHANGED <<store_errors, streamVars, discVars, table, runCount, apiVars, analysis, cached_result, existing,
                   narratives, omission_report, log, dropped, in_flight, session>>

\* Mutant of IsCacheHit: the test on the summary is inverted.
IsCacheHit_NoSummary(tbl, m) ==
    /\ Cardinality(m) = 1
    /\ \A i \in m : tbl[i].summary = ""

\* if cached_result and cached_result.summary, for the rows m the lookup
\* selects: scalar_one_or_none() gives no cached_result unless m is one row
\* (it raises on several rows, and the except falls through).
IsCacheHit(tbl, m) ==
    /\ Cardinality(m) = 1
    /\ \A i \in m : tbl[i].summary # ""

\* process_article step 1, the lookup session up to the hit test.
CacheLookup(r) ==
    /\ agPc[r] = "lookup"
    /\ LET m == Matching(table, CurrentArticle(r).url)
           hit == IsCacheHit(table, m)
       IN  IF hit
           THEN /\ cached_result' = Set(cached_result, r, Loaded(table, CHOOSE i \in m : TRUE))
                /\ agPc' = Set(agPc, r, "hit")
                /\ session' = Set(session, r, "lookup")
                /\ UNCHANGED in_flight
           ELSE /\ cached_result' = Set(cached_result, r, NoRow)
                /\ agPc' = Set(agPc, r, "infer")
                /\ session' = Set(session, r, ExitWith("lookup"))
                /\ in_flight' = Set(in_flight, r, Invoked(in_flight[r], idx[r]))
    /\ UNCHANGED <<store_errors, streamVars, discVars, table, runCount, apiVars, valid_articles, idx, results, analysis,
                   existing, narratives, omission_report, log, startTable, dropped>>

\* Mutant of HitUpdate: the topic of the entry is left as it was.
HitUpdate_KeepTopic(row, c, t, text) ==
    [row EXCEPT !.content = IF c.content = 0 THEN text ELSE @]

\* The UPDATE a cache hit commits: the attributes the session changed.
HitUpdate(row, c, t, text) ==
    [row EXCEPT !.topic = IF c.topic # t THEN t ELSE @,
                !.content = IF c.content = 0 THEN text ELSE @]

\* process_article step 1, cache hit: rebind topic, backfill content, commit,
\* return the cached bias and summary.
CacheHit(r) ==
    /\ agPc[r] = "hit"
    /\ LET c == cached_result[r]
       IN  /\ table' = [table EXCEPT ![c.id] =
                            HitUpdate(@, c, topic[r], CurrentArticle(r).text)]
           /\ results' = Set(results, r,
                   Append(results[r], [bias |-> c.bias_rating, summary |-> c.summary]))
    /\ agPc' = Set(agPc, r, NextPc(r))
    /\ idx' = Set(idx, r, idx[r] + 1)
    /\ cached_result' = Set(cached_result, r, NoRow)
    /\ session' = Set(session, r, ExitWith(session[r]))
    /\ UNCHANGED <<store_errors, streamVars, discVars, runCount, apiVars, valid_articles, analysis, existing, narratives,
                   omission_report, log, startTable, in_flight, dropped>>

\* process_article step 2: chain.invoke returns a structured answer.
Infer(r) ==
    /\ agPc[r] = "infer"
    /\ \E ans \in InferAnswers : analysis' = Set(analysis, r, ans)
    /\ agPc' = Set(agPc, r, "save")
    /\ log' = Set(log, r, Append(log[r], Call("classify", CurrentArticle(r).url, "")))
    /\ in_flight' = Set(in_flight, r, Returned(in_flight[r], idx[r]))
    /\ UNCHANGED <<store_errors, streamVars, discVars, table, runCount, apiVars, valid_articles, idx, results, cached_result,
                   existing, narratives, omission_report, startTable, session, dropped>>

\* Mutant of AfterInferenceFailure: the exception leaves run_full_analysis.
AfterInferenceFailure_Abort(r) ==
    /\ agPc' = Set(agPc, r, "raised")
    /\ UNCHANGED <<store_errors, table, results>>

\* What process_article does with the table and the results when chain.invoke
\* raises: nothing, it returns None.
AfterInferenceFailure(r) ==
    /\ agPc' = Set(agPc, r, NextPc(r))
    /\ UNCHANGED <<store_errors, table, results>>

\* process_article step 2: chain.invoke raises.
InferFail(r) ==
    /\ agPc[r] = "infer"
    /\ AfterInferenceFailure(r)
    /\ idx' = Set(idx, r, idx[r] + 1)
    /\ log' = Set(log, r, Append(log[r], Call("classify", CurrentArticle(r).url, "")))
    /\ dropped' = Set(dropped, r, dropped[r] \cup {idx[r]})
    /\ in_flight' = Set(in_flight, r, Returned(in_flight[r], idx[r]))
    /\ UNCHANGED <<store_errors, streamVars, discVars, runCount, apiVars, valid_articles, analysis, cached_result,
                   existing, narratives, omission_report, startTable, session>>

\* process_article step 3, the save session up to the existence re-check.
\* Several rows make scalar_one_or_none() raise: the save is skipped.
SaveSelect(r) ==
    /\ agPc[r] = "save"
    /\ LET m == Matching(table, CurrentArticle(r).url)
       IN  IF Cardinality(m) > 1
           THEN /\ results' = Set(results, r, Append(results[r], analysis[r]))
                /\ agPc' = Set(agPc, r, NextPc(r))
                /\ idx' = Set(idx, r, idx[r] + 1)
                /\ analysis' = Set(analysis, r, NoAnalysis)
                /\ UNCHANGED existing
                /\ session' = Set(session, r, ExitWith("save"))
           ELSE /\ existing' = Set(existing, r,
                        IF m = {} THEN NoRow ELSE Loaded(table, CHOOSE i \in m : TRUE))
                /\ agPc' = Set(agPc, r, "commit")
                /\ session' = Set(session, r, "save")
                /\ UNCHANGED <<store_errors, results, idx, analysis>>
    /\ UNCHANGED <<store_errors, streamVars, discVars, table, runCount, apiVars, valid_articles, cached_result, narratives,
                   omission_report, log, startTable, in_flight, dropped>>

\* The UPDATE the save session commits for an existing row: the attributes
\* whose new value differs from the loaded one.
SaveUpdate(row, e, t, ans, text) ==
    [row EXCEPT !.bias_rating = IF e.bias_rating # ans.bias THEN ans.bias ELSE @,
                !.summary = IF e.summary # ans.summary THEN ans.summary ELSE @,
                !.content = IF e.content # text THEN text ELSE @,
                !.topic = IF e.topic # t THEN t ELSE @]

\* The table after the save session commits.
Saved(tbl, e, t, art, ans) ==
    IF e.id # 0
    THEN [tbl EXCEPT ![e.id] = SaveUpdate(@, e, t, ans, art.text)]
    ELSE Append(tbl, Row(t, art.url, ans.bias, ans.summary, art.text))

\* process_article step 3: update the existing row or add a new one, commit,
\* return the analysis.
SaveCommit(r) ==
    /\ agPc[r] = "commit"
    /\ table' = Saved(table, existing[r], topic[r], CurrentArticle(r), analysis[r])
    /\ results' = Set(results, r, Append(results[r], analysis[r]))
    /\ agPc' = Set(agPc, r, NextPc(r))
    /\ idx' = Set(idx, r, idx[r] + 1)
    /\ analysis' = Set(analysis, r, NoAnalysis)
    /\ existing' = Set(existing, r, NoRow)
    /\ session' = Set(session, r, ExitWith(session[r]))
    /\ UNCHANGED <<store_errors, streamVars, discVars, runCount, apiVars, valid_articles, cached_result, narratives,
                   omission_report, log, startTable, in_flight, dropped>>

\* Step 2 of run_full_analysis for one bias: the synthesizer chain is invoked
\* for a non-empty group, an empty group gets the placeholder.
Synthesize(r, b, here, next) ==
    /\ agPc[r] = here
    /\ LET summaries == grouped_summaries(results[r], b)
       IN  IF summaries # <<>>
           THEN /\ log' = Set(log, r, Append(log[r], Call("synthesize", b, "")))
                /\ \/ /\ narratives' = Set(narratives, r, [narratives[r] EXCEPT ![b] = SynthText(b)])
                      /\ agPc' = Set(agPc, r, next)
                   \/ /\ agPc' = Set(agPc, r, "raised")
                      /\ UNCHANGED narratives
           ELSE /\ narratives' = Set(narratives, r, [narratives[r] EXCEPT ![b] = Placeholder])
                /\ agPc' = Set(agPc, r, next)
                /\ UNCHANGED log
    /\ UNCHANGED <<store_errors, streamVars, discVars, table, runCount, apiVars, valid_articles, idx, results, analysis,
                   cached_result, existing, omission_report, startTable, in_flight, session, dropped>>

SynthesizeLeft(r) == Synthesize(r, "Left", "synth_left", "synth_right")
\* Mutant of SynthesizeRight: the run returns after the narratives.
SynthesizeRight_Return(r) == Synthesize(r, "Right", "synth_right", "returned")

SynthesizeRight(r) == Synthesize(r, "Right", "synth_right", "omission")

\* Step 3 of run_full_analysis: the omission chain, then the return.
DetectOmissions(r) ==
    /\ agPc[r] = "omission"
    /\ log' = Set(log, r, Append(log[r],
                Call("omission", narratives[r]["Left"], narratives[r]["Right"])))
    /\ \/ /\ omission_report' = Set(omission_report, r, "report")
          /\ agPc' = Set(agPc, r, "returned")
       \/ /\ agPc' = Set(agPc, r, "raised")
          /\ UNCHANGED omission_report
    /\ UNCHANGED <<store_errors, streamVars, discVars, table, runCount, apiVars, valid_articles, idx, results, analysis,
                   cached_result, existing, narratives, startTable, in_flight, session, dropped>>

\* init_db() raises (the database is unreachable): it is called outside any
\* try, so run_full_analysis raises.
InitDbFails(r) ==
    /\ agPc[r] = "init"
    /\ agPc' = Set(agPc, r, "raised")
    /\ store_errors' = Set(store_errors, r, store_errors[r] \cup {0})
    /\ UNCHANGED <<streamVars, discVars, table, runCount, apiVars, valid_articles, idx, results, analysis,
                   cached_result, existing, narratives, omission_report, log, startTable, in_flight, session,
                   dropped>>

\* The lookup session raises: the except prints, process_article falls
\* through to the inference.
LookupFails(r) ==
    /\ agPc[r] = "lookup"
    /\ cached_result' = Set(cached_result, r, NoRow)
    /\ agPc' = Set(agPc, r, "infer")
    /\ store_errors' = Set(store_errors, r, store_errors[r] \cup {idx[r]})
    /\ session' = Set(session, r, ExitWith("lookup"))
    /\ in_flight' = Set(in_flight, r, Invoked(in_flight[r], idx[r]))
    /\ UNCHANGED <<streamVars, discVars, table, runCount, apiVars, valid_articles, idx, results, analysis,
                   existing, narratives, omission_report, log, startTable, dropped>>

\* The commit of a cache hit raises: nothing is written, the except prints
\* and process_article falls through to the inference.
HitCommitFails(r) ==
    /\ agPc[r] = "hit"
    /\ cached_result' = Set(cached_result, r, NoRow)
    /\ agPc' = Set(agPc, r, "infer")
    /\ store_errors' = Set(store_errors, r, store_errors[r] \cup {idx[r]})
    /\ session' = Set(session, r, ExitWith(session[r]))
    /\ in_flight' = Set(in_flight, r, Invoked(in_flight[r], idx[r]))
    /\ UNCHANGED <<streamVars, discVars, table, runCount, apiVars, valid_articles, idx, results, analysis,
                   existing, narratives, omission_report, log, startTable, dropped>>

\* The save session raises, in its select or in its commit: nothing is
\* written, the except prints and the analysis is returned.
SaveFails(r) ==
    /\ agPc[r] \in {"save", "commit"}
    /\ results' = Set(results, r, Append(results[r], analysis[r]))
    /\ agPc' = Set(agPc, r, NextPc(r))
    /\ idx' = Set(idx, r, idx[r] + 1)
    /\ analysis' = Set(analysis, r, NoAnalysis)
    /\ existing' = Set(existing, r, NoRow)
    /\ store_errors' = Set(store_errors, r, store_errors[r] \cup {idx[r]})
    /\ session' = Set(session, r, ExitWith("save"))
    /\ UNCHANGED <<streamVars, discVars, table, runCount, apiVars, valid_articles, cached_result,
                   narratives, omission_report, log, startTable, in_flight, dropped>>

StoreFault(r) ==
    \/ InitDbFails(r)
    \/ LookupFails(r)
    \/ HitCommitFails(r)
    \/ SaveFails(r)

AgentStep(r) ==
    \/ BeginAnalysis(r)
    \/ CacheLookup(r)
    \/ CacheHit(r)
    \/ Infer(r)
    \/ InferFail(r)
    \/ SaveSelect(r)
    \/ SaveCommit(r)
    \/ SynthesizeLeft(r)
    \/ SynthesizeRight(r)
    \/ DetectOmissions(r)

\* ------------------------------------------------------ core/discovery.py
\* Mutant of Dedup: every collected link is kept.
Dedup_Not(s, seen) == s

\* "Deduplicate while preserving order"
RECURSIVE Dedup(_, _)
Dedup(s, seen) ==
    IF s = <<>> THEN <<>>
    ELSE IF Head(s) \in seen THEN Dedup(Tail(s), seen)
         ELSE <<Head(s)>> \o Dedup(Tail(s), seen \cup {Head(s)})

\* unique_urls[:18]
Cap(s, n) == SubSeq(s, 1, IF Len(s) < n THEN Len(s) ELSE n)

\* get_news_urls: the links collected query by query, deduplicated and capped.
get_news_urls(collected) == Cap(Dedup(collected, {}), UrlCap)

\* What the query-generation model can answer: lines of text, some blank.
LlmResults ==
    { <<>>, <<"q1">>, <<"q1", "", "q2">>, <<"q1", "q2", "q3">>,
      <<"q1", "q2", "", "q3", "q4">>, <<"q1", "q2", "q3", "q4", "q5">> }

\* [q.strip() for q in result.strip().split("\n") if q.strip()]
RECURSIVE NonBlank(_)
NonBlank(lines) ==
    IF lines = <<>> THEN <<>>
    ELSE IF Head(lines) = "" THEN NonBlank(Tail(lines))
         ELSE <<Head(lines)>> \o NonBlank(Tail(lines))

\* generate_search_queries: two queries without a credential, three when the
\* model call raises, else at most four of the lines the model wrote.
generate_search_queries(has_key, raised, result) ==
    IF ~has_key THEN <<"topic news", "topic analysis">>
    ELSE IF raised THEN <<"topic", "topic news", "topic analysis">>
    ELSE Cap(NonBlank(result), MaxQueries)

\* What a search can answer to a query: it raises, or gives links (numbered).
Answer(f, l) == [failed |-> f, links |-> l]

Answers ==
    { Answer(TRUE, <<>>), Answer(FALSE, <<>>), Answer(FALSE, <<1, 2, 3, 4, 5, 6>>),
      Answer(FALSE, <<6, 7, 8, 9, 10>>), Answer(FALSE, <<11, 12, 13, 14, 15>>),
      Answer(FALSE, <<16, 17, 18, 19, 20>>), Answer(FALSE, <<1, 1, 6, 2>>) }

\* collected_urls.extend(side_urls[:5]), skipped when the search raised.
Contribution(ans) == IF ans.failed THEN <<>> ELSE Cap(ans.links, PerQuery)

\* A call get_news_urls(topic, api_key): [] without a credential.
CallGetNewsUrls ==
    /\ dPc \in {"idle", "returned"}
    /\ \E key \in BOOLEAN :
          /\ api_key' = key
          /\ dPc' = IF key THEN "generate" ELSE "returned"
    /\ queries' = <<>>
    /\ answers' = <<>>
    /\ collected_urls' = <<>>
    /\ unique_urls' = <<>>
    /\ UNCHANGED <<table, runCount, apiVars, agentVars, streamVars>>

\* queries = generate_search_queries(topic)
GenerateQueries ==
    /\ dPc = "generate"
    /\ \E has_key \in BOOLEAN, raised \in BOOLEAN, result \in LlmResults :
          queries' = generate_search_queries(has_key, raised, result)
    /\ dPc' = "search"
    /\ UNCHANGED <<table, runCount, apiVars, agentVars, streamVars, api_key, answers,
                   collected_urls, unique_urls>>

\* One turn of the loop over the queries.
SearchQuery ==
    /\ dPc = "search"
    /\ Len(answers) < Len(queries)
    /\ \E ans \in Answers :
          /\ answers' = Append(answers, ans)
          /\ collected_urls' = collected_urls \o Contribution(ans)
    /\ UNCHANGED <<table, runCount, apiVars, agentVars, streamVars, dPc, api_key, queries,
                   unique_urls>>

\* After the loop: deduplicate, cap, return.
ReturnUrls ==
    /\ dPc = "search"
    /\ Len(answers) = Len(queries)
    /\ unique_urls' = get_news_urls(collected_urls)
    /\ dPc' = "returned"
    /\ UNCHANGED <<table, runCount, apiVars, agentVars, streamVars, api_key, queries, answers,
                   collected_urls>>

\* -------------------------------------------------- core/scraper_client.py
\* An item of the scraper's response: content is the length of the raw
\* content, pad the number of leading and trailing blanks strip() removes.
Item(u, st, c, p) == [url |-> u, status |-> st, content |-> c, pad |-> p]

ScraperItems ==
    { Item("u1", "success", 101, 0), Item("u1", "success", 100, 0),
      Item("u2", "success", 103, 2), Item("u2", "success", 101, 2),
      Item("u2", "error", 101, 0),   Item("", "success", 101, 0) }

\* (item.get("content") or "").strip()
Stripped(item) == item.content - item.pad

\* Mutant of Usable: the length test reads the content as received.
Usable_Raw(item) == /\ item.status = "success"
                    /\ item.content # 0
                    /\ ~(item.content < MinContent)

Usable(item) == /\ item.status = "success"
                /\ Stripped(item) # 0
                /\ ~(Stripped(item) < MinContent)

RECURSIVE KeepUsable(_)
KeepUsable(items) ==
    IF items = <<>> THEN <<>>
    ELSE IF Usable(Head(items))
         THEN <<Art(Head(items).url, Stripped(Head(items)), 0, Stripped(Head(items)) + 50)>>
              \o KeepUsable(Tail(items))
         ELSE KeepUsable(Tail(items))

\* ------------------------------------------------------------------ api.py
\* Mutant of IsEmpty: no list counts as empty.
IsEmpty_Never(list) == FALSE

\* if not urls / if not articles
IsEmpty(list) == list = <<>>

\* raise HTTPException(status_code=..., detail=...)
Failure(code, det) == [status |-> code, detail |-> det]

\* request.topic as the client sends it: blanks and words.
RawTopics == { <<>>, <<" ">>, <<" ", " ">>, <<"T1">>, <<" ", "T1", " ">>, <<"T2">>, <<"T2", " ">> }

\* The environment: which of the keys are set.
Envs == [GROQ_API_KEY : BOOLEAN, SERP_API_KEY : BOOLEAN, SERPAPI_KEY : BOOLEAN]

RECURSIVE lstrip(_)
lstrip(raw) == IF raw # <<>> /\ Head(raw) = " " THEN lstrip(Tail(raw)) ELSE raw

RECURSIVE rstrip(_)
rstrip(raw) ==
    IF raw # <<>> /\ raw[Len(raw)] = " " THEN rstrip(SubSeq(raw, 1, Len(raw) - 1)) ELSE raw

\* Mutant of strip: the topic is taken as sent.
strip_Not(raw) == raw

\* request.topic.strip()
strip(raw) == rstrip(lstrip(raw))

\* The topic as the model keeps it: "" or the word that is left.
TopicOf(stripped) == IF stripped = <<>> THEN "" ELSE stripped[1]

groq_key(env) == env.GROQ_API_KEY

\* os.getenv("SERP_API_KEY") or os.getenv("SERPAPI_KEY")
serp_key(env) == env.SERP_API_KEY \/ env.SERPAPI_KEY

\* The checks both endpoints make before anything else: what they raise, or
\* NoResponse when the request goes on.
Gate(raw, env) ==
    IF strip(raw) = <<>> THEN Failure(400, "Topic is required")
    ELSE IF ~groq_key(env) \/ ~serp_key(env) THEN Failure(500, "API keys not configured")
    ELSE NoResponse

SlotFree(r) == \/ apiPc[r] \in {"idle", "done"}
               \/ apiPc[r] = "direct" /\ agPc[r] \in {"returned", "raised"}

\* The locals of run_full_analysis as a fresh call starts with them.
ResetAgent(r) ==
    /\ valid_articles' = Set(valid_articles, r, <<>>)
    /\ idx' = Set(idx, r, 1)
    /\ results' = Set(results, r, <<>>)
    /\ analysis' = Set(analysis, r, NoAnalysis)
    /\ cached_result' = Set(cached_result, r, NoRow)
    /\ existing' = Set(existing, r, NoRow)
    /\ narratives' = Set(narratives, r, NoNarratives)
    /\ omission_report' = Set(omission_report, r, "")
    /\ log' = Set(log, r, <<>>)
    /\ startTable' = Set(startTable, r, <<>>)
    /\ dropped' = Set(dropped, r, {})
    /\ store_errors' = Set(store_errors, r, {})
    /\ in_flight' = Set(in_flight, r, {})
    /\ session' = Set(session, r, "none")

\* The locals of a fresh call of fetch_articles.
ResetFetch(r) ==
    /\ attempt' = Set(attempt, r, 0)
    /\ slept' = Set(slept, r, 0)
    /\ data' = Set(data, r, <<>>)

\* Articles of a call whose batch is long enough for lanes of unequal size.
LaneArticles == { Art("u1", 101, 0, 151), Art("u2", 101, 0, 151), Art("u2", 100, 0, 150) }

\* One direct call run_full_analysis("T1", articles) of a fresh service.
CallWithLanes(r) ==
    /\ SlotFree(r)
    /\ runCount = 0
    /\ runCount' = runCount + 1
    /\ \E batch \in SeqsUpTo(LaneArticles, MaxLaneBatch) :
          articles' = Set(articles, r, batch)
    /\ topic' = Set(topic, r, "T1")
    /\ apiPc' = Set(apiPc, r, "direct")
    /\ agPc' = Set(agPc, r, "init")
    /\ urls' = Set(urls, r, <<>>)
    /\ ResetFetch(r)
    /\ response' = Set(response, r, NoResponse)
    /\ ResetAgent(r)
    /\ UNCHANGED <<table, streamVars, discVars>>

\* Entries the table holds when the service starts: one an earlier run
\* wrote, and one from before the content column was filled.
StoredEntries ==
    { Row("T2", "u1", "Left", "sL", 101), Row("T2", "u1", "Right", "sR", 0) }

\* The table as the service finds it.
StartOverEntries ==
    /\ table = <<>>
    /\ runCount = 0
    /\ \A r \in Runs : apiPc[r] = "idle"
    /\ \E row \in StoredEntries : table' = <<row>>
    /\ UNCHANGED <<runCount, apiVars, agentVars, streamVars, discVars>>

\* A direct call run_full_analysis(topic, articles).
CallRunFullAnalysis(r) ==
    /\ SlotFree(r)
    /\ runCount < MaxRuns
    /\ runCount' = runCount + 1
    /\ \E t \in Topics, batch \in SeqsUpTo(ArticleUniverse, MaxBatch) :
          /\ topic' = Set(topic, r, t)
          /\ articles' = Set(articles, r, batch)
    /\ apiPc' = Set(apiPc, r, "direct")
    /\ agPc' = Set(agPc, r, "init")
    /\ urls' = Set(urls, r, <<>>)
    /\ ResetFetch(r)
    /\ response' = Set(response, r, NoResponse)
    /\ ResetAgent(r)
    /\ UNCHANGED <<table, streamVars, discVars>>

\* POST /api/analyze up to the try block: the blank topic and the API keys.
analyze_topic(r) ==
    /\ SlotFree(r)
    /\ runCount < MaxRuns
    /\ runCount' = runCount + 1
    /\ ResetAgent(r)
    /\ urls' = Set(urls, r, <<>>)
    /\ ResetFetch(r)
    /\ articles' = Set(articles, r, <<>>)
    /\ agPc' = Set(agPc, r, "off")
    /\ \E raw \in RawTopics, env \in Envs :
          /\ topic' = Set(topic, r, TopicOf(strip(raw)))
          /\ response' = Set(response, r, Gate(raw, env))
          /\ apiPc' = Set(apiPc, r, IF Gate(raw, env) = NoResponse THEN "discover" ELSE "done")
    /\ UNCHANGED <<table, streamVars, discVars>>

\* Step 1 of analyze_topic: get_news_urls, 404 on an empty list.
Discover(r) ==
    /\ apiPc[r] = "discover"
    /\ \E collected \in SeqsUpTo(Urls, MaxCollected) :
          LET found == get_news_urls(collected)
          IN  /\ urls' = Set(urls, r, found)
              /\ IF IsEmpty(found)
                 THEN /\ apiPc' = Set(apiPc, r, "done")
                      /\ response' = Set(response, r, Failure(404, "No relevant sources found for this topic"))
                 ELSE /\ apiPc' = Set(apiPc, r, "fetch")
                      /\ UNCHANGED response
    /\ UNCHANGED <<streamVars, discVars, table, runCount, topic, articles, attempt, slept, data, agentVars>>

\* fetch_articles, top of the loop: time.sleep(backoff[attempt]).
FetchSleep(r) ==
    /\ apiPc[r] = "fetch"
    /\ attempt[r] < max_retries
    /\ slept' = Set(slept, r, slept[r] + backoff[attempt[r] + 1])
    /\ apiPc' = Set(apiPc, r, "request")
    /\ UNCHANGED <<streamVars, discVars, table, runCount, topic, urls, articles, attempt, data,
                   response, agentVars>>

\* fetch_articles after its last attempt: return [].
FetchExhausted(r) ==
    /\ apiPc' = Set(apiPc, r, "fetched")
    /\ articles' = Set(articles, r, <<>>)

\* One attempt of fetch_articles that yields no usable article: the request
\* raises or times out (nothing is read), or the response is empty or holds
\* no usable item. The loop goes on, or ends after max_retries attempts.
FetchRetry(r) ==
    /\ apiPc[r] = "request"
    /\ \E failed \in BOOLEAN, got \in SeqsUpTo(ScraperItems, MaxItems) :
          /\ failed \/ KeepUsable(got) = <<>>
          /\ data' = Set(data, r, IF failed THEN <<>> ELSE got)
    /\ attempt' = Set(attempt, r, attempt[r] + 1)
    /\ IF attempt[r] + 1 = max_retries
       THEN FetchExhausted(r)
       ELSE /\ apiPc' = Set(apiPc, r, "fetch")
            /\ UNCHANGED articles
    /\ UNCHANGED <<streamVars, discVars, table, runCount, topic, urls, slept, response, agentVars>>

\* An attempt of fetch_articles whose response holds usable items: return them.
FetchArticles(r) ==
    /\ apiPc[r] = "request"
    /\ \E got \in SeqsUpTo(ScraperItems, MaxItems) :
          /\ KeepUsable(got) # <<>>
          /\ data' = Set(data, r, got)
          /\ articles' = Set(articles, r, KeepUsable(got))
    /\ attempt' = Set(attempt, r, attempt[r] + 1)
    /\ apiPc' = Set(apiPc, r, "fetched")
    /\ UNCHANGED <<streamVars, discVars, table, runCount, topic, urls, slept, response, agentVars>>

\* analyze_topic after fetch_articles returned: 503 on an empty list, else
\* step 3 calls run_full_analysis.
CheckArticles(r) ==
    /\ apiPc[r] = "fetched"
    /\ ResetFetch(r)
    /\ urls' = Set(urls, r, <<>>)      \* not read again by analyze_topic
    /\ IF IsEmpty(articles[r])
       THEN /\ apiPc' = Set(apiPc, r, "done")
            /\ response' = Set(response, r, Failure(503, "Could not fetch article content"))
            /\ UNCHANGED agPc
       ELSE /\ apiPc' = Set(apiPc, r, "analysis")
            /\ agPc' = Set(agPc, r, "init")
            /\ UNCHANGED response
    /\ UNCHANGED <<streamVars, discVars, store_errors, table, runCount, topic, articles, valid_articles,
                   idx, results, analysis, cached_result, existing, narratives,
                   omission_report, log, startTable, in_flight, session, dropped>>

\* Mutant of sources_list: a URL already listed is not listed again.
RECURSIVE sources_list_Unique(_)
sources_list_Unique(arts) ==
    IF arts = <<>> THEN <<>>
    ELSE LET rest == sources_list_Unique(SubSeq(arts, 1, Len(arts) - 1))
             u == arts[Len(arts)].url
         IN  IF u = "" \/ \E k \in DOMAIN rest : rest[k] = u
             THEN rest
             ELSE Append(rest, u)

\* for art in articles: if art.get("url"): sources_list.append(...)
RECURSIVE sources_list(_)
sources_list(arts) ==
    IF arts = <<>> THEN <<>>
    ELSE IF Head(arts).url # "" THEN <<Head(arts).url>> \o sources_list(Tail(arts))
         ELSE sources_list(Tail(arts))

\* The body analyze_topic returns: AnalysisResponse(success=True, ...).
AnalysisResponse(t, arts, rs, narr, report) ==
    [status |-> 200,
     topic |-> t,
     bias_counts |-> bias_counts(rs),
     narratives |-> narr,
     omission_report |-> report,
     sources_count |-> SumCounts(bias_counts(rs)),
     sources |-> sources_list(arts)]

\* analyze_topic after run_full_analysis returned: format the response.
Respond(r) ==
    /\ apiPc[r] = "analysis"
    /\ agPc[r] = "returned"
    /\ response' = Set(response, r,
          AnalysisResponse(topic[r], articles[r], results[r], narratives[r], omission_report[r]))
    /\ apiPc' = Set(apiPc, r, "done")
    /\ UNCHANGED <<streamVars, discVars, table, runCount, topic, urls, articles, attempt, slept, data, agentVars>>

\* analyze_topic when run_full_analysis raised: HTTP 500.
RespondError(r) ==
    /\ apiPc[r] = "analysis"
    /\ agPc[r] = "raised"
    /\ response' = Set(response, r, Failure(500, "exception"))
    /\ apiPc' = Set(apiPc, r, "done")
    /\ UNCHANGED <<streamVars, discVars, table, runCount, topic, urls, articles, attempt, slept, data, agentVars>>

\* --------------------------------------------------- api.py, the streaming
Event(kind, ph, pct, det, d) ==
    [event |-> kind, phase |-> ph, progress |-> pct, detail |-> det, data |-> d]

Progress(ph, pct) == Event("progress", ph, pct, "", NoResponse)
Result(d) == Event("result", "", 0, "", d)
ErrorEvent(det) == Event("error", "", 0, det, NoResponse)
\* the None that closes the queue
Sentinel == Event("None", "", 0, "", NoResponse)

\* Mutant of Put: a queue of one slot, where put waits for the consumer.
Put_Bounded(items) ==
    /\ out_queue = <<>>
    /\ out_queue' = out_queue \o items
    /\ sent' = sent \o items

\* out_queue.put, once per item, on the unbounded queue.Queue()
Put(items) ==
    /\ out_queue' = out_queue \o items
    /\ sent' = sent \o items

\* Mutant of Abort: the run ends without the error event.
Abort_Silent(det) == <<Sentinel>>

\* What _run_analysis_stream puts when it ends without a result: the error
\* event of the early return or of the except clause, then the finally's None.
Abort(det) == <<ErrorEvent(det), Sentinel>>

\* Mutant of on_scrape_progress: current is not scaled by total.
on_scrape_progress_Unscaled(current, total) ==
    IF total # 0 THEN 15 + (45 * current) ELSE 15

\* on_scrape_progress: pct = 15 + int(45 * current / total) if total else 15
on_scrape_progress(current, total) ==
    IF total # 0 THEN 15 + ((45 * current) \div total) ELSE 15

\* fetch_articles_with_progress reports each completed item: the arguments of
\* its next on_progress call after `done` calls, for the URL list us.
NextProgressCall(done, us) == [current |-> done + 1, total |-> Len(us)]

\* The article lists fetch_articles_with_progress can return: the usable
\* items of a scraper response, or nothing.
StreamItems ==
    { Item("u1", "success", 101, 0), Item("u2", "error", 101, 0) }

RetrievedWithProgress == {KeepUsable(items) : items \in SeqsUpTo(StreamItems, MaxStreamItems)}

\* The heartbeat: if current_pct < 92: current_pct += 3, and the event is put.
HeartbeatPct(pct) == IF pct < HeartbeatCeiling THEN pct + HeartbeatStep ELSE pct

\* Mutant of HeartbeatEvents: the event is put whatever current_pct is.
HeartbeatEvents_NoCeiling(pct) == <<Progress("analysis", pct + HeartbeatStep)>>

HeartbeatEvents(pct) ==
    IF pct < HeartbeatCeiling THEN <<Progress("analysis", pct + HeartbeatStep)>> ELSE <<>>

\* POST /api/analyze/stream: the checks, then _sse_generate creates the queue
\* and starts the thread of _run_analysis_stream.
analyze_topic_stream ==
    /\ SlotFree(1)
    /\ streamPc = "off"
    /\ ResetAgent(1)
    /\ urls' = Set(urls, 1, <<>>)
    /\ ResetFetch(1)
    /\ articles' = Set(articles, 1, <<>>)
    /\ agPc' = Set(agPc, 1, "off")
    /\ \E raw \in RawTopics, env \in Envs :
          /\ topic' = Set(topic, 1, TopicOf(strip(raw)))
          /\ response' = Set(response, 1, Gate(raw, env))
          /\ IF Gate(raw, env) = NoResponse THEN
                /\ apiPc' = Set(apiPc, 1, "stream")
                /\ streamPc' = "start"
                /\ consPc' = "reading"
             ELSE
                /\ apiPc' = Set(apiPc, 1, "done")
                /\ UNCHANGED <<streamPc, consPc>>
    /\ UNCHANGED <<table, runCount, out_queue, sent, frames, discVars, scraped, current_pct,
                   analysis_done, analysis_result_holder, analysis_error_holder>>

\* _run_analysis_stream: the first progress event, before get_news_urls.
StreamBegin ==
    /\ streamPc = "start"
    /\ Put(<<Progress("discovery", 5)>>)
    /\ streamPc' = "discovery"
    /\ UNCHANGED <<table, runCount, apiVars, agentVars, consPc, frames, discVars, scraped,
                   current_pct, analysis_done, analysis_result_holder,
                   analysis_error_holder>>

\* _run_analysis_stream: get_news_urls returns.
StreamDiscover ==
    /\ streamPc = "discovery"
    /\ \E collected \in SeqsUpTo(Urls, MaxCollected) :
          LET found == get_news_urls(collected)
          IN  /\ urls' = Set(urls, 1, found)
              /\ IF IsEmpty(found)
                 THEN /\ Put(Abort("No relevant sources found for this topic"))
                      /\ streamPc' = "closed"
                 ELSE /\ Put(<<Progress("discovery", 15), Progress("scraping", 15)>>)
                      /\ streamPc' = "scraping"
    /\ scraped' = 0
    /\ UNCHANGED <<table, runCount, apiPc, topic, articles, attempt, slept, data, response, agentVars,
                   consPc, frames, discVars, current_pct, analysis_done, analysis_result_holder,
                   analysis_error_holder>>

\* fetch_articles_with_progress calls on_progress for one more item.
ScrapeProgress ==
    /\ streamPc = "scraping"
    /\ scraped < Len(urls[1])
    /\ LET c == NextProgressCall(scraped, urls[1])
       IN  /\ Put(<<Progress("scraping", on_scrape_progress(c.current, c.total))>>)
           /\ scraped' = c.current
    /\ UNCHANGED <<table, runCount, apiVars, agentVars, streamPc, consPc, frames, discVars,
                   current_pct, analysis_done, analysis_result_holder,
                   analysis_error_holder>>

\* fetch_articles_with_progress returns, every item reported: the error of
\* the empty list, or the two events before the analysis, whose thread is
\* started.
ScrapeReturn ==
    /\ streamPc = "scraping"
    /\ scraped = Len(urls[1])
    /\ urls' = Set(urls, 1, <<>>)      \* not read after the 60% event
    /\ scraped' = 0
    /\ \E arts \in RetrievedWithProgress :
          /\ articles' = Set(articles, 1, arts)
          /\ IF IsEmpty(arts)
             THEN /\ Put(Abort("Could not fetch article content"))
                  /\ streamPc' = "closed"
                  /\ UNCHANGED <<agPc, current_pct>>
             ELSE /\ Put(<<Progress("scraping", 60), Progress("analysis", 65)>>)
                  /\ streamPc' = "analysis"
                  /\ agPc' = Set(agPc, 1, "init")
                  /\ current_pct' = 65
    /\ UNCHANGED <<store_errors, table, runCount, apiPc, topic, attempt, slept, data, response, valid_articles,
                   idx, results, analysis, cached_result, existing, narratives,
                   omission_report, log, startTable, in_flight, session, dropped, consPc, frames, discVars,
                   analysis_done, analysis_result_holder, analysis_error_holder>>

\* fetch_articles_with_progress raises: the except clause, then the finally.
ScrapeRaise ==
    /\ streamPc = "scraping"
    /\ Put(Abort("exception"))
    /\ streamPc' = "closed"
    /\ urls' = Set(urls, 1, <<>>)
    /\ scraped' = 0
    /\ UNCHANGED <<table, runCount, apiPc, topic, articles, attempt, slept, data, response, agentVars,
                   consPc, frames, discVars,
                   current_pct, analysis_done, analysis_result_holder,
                   analysis_error_holder>>

\* run_analysis_task after run_full_analysis returned or raised.
run_analysis_task ==
    /\ apiPc[1] = "stream"
    /\ ~analysis_done
    /\ agPc[1] \in {"returned", "raised"}
    /\ IF agPc[1] = "returned"
       THEN /\ analysis_result_holder' = "result"
            /\ UNCHANGED analysis_error_holder
       ELSE /\ analysis_error_holder' = "error"
            /\ UNCHANGED analysis_result_holder
    /\ analysis_done' = TRUE
    /\ UNCHANGED <<table, runCount, apiVars, agentVars, streamPc, consPc, out_queue, sent,
                   frames, discVars, scraped, current_pct>>

\* analysis_done.wait(timeout=3.0) times out: the loop body is entered.
HeartbeatTimeout ==
    /\ streamPc = "analysis"
    /\ ~analysis_done
    /\ streamPc' = "beat"
    /\ UNCHANGED <<table, runCount, apiVars, agentVars, consPc, out_queue, sent, frames, discVars,
                   scraped, current_pct, analysis_done, analysis_result_holder,
                   analysis_error_holder>>

\* The body of the heartbeat loop.
Heartbeat ==
    /\ streamPc = "beat"
    /\ Put(HeartbeatEvents(current_pct))
    /\ current_pct' = HeartbeatPct(current_pct)
    /\ streamPc' = "analysis"
    /\ UNCHANGED <<table, runCount, apiVars, agentVars, consPc, frames, discVars, scraped,
                   analysis_done, analysis_result_holder, analysis_error_holder>>

\* [{"url": a.get("url"), ...} for a in articles if a.get("url")]
StreamSources(arts) ==
    LET kept == SelectSeq(arts, LAMBDA a : a.url # "")
    IN  [i \in 1..Len(kept) |-> kept[i].url]

\* bias_counts.get(label, 0) on the counts run_full_analysis returned
CountOf(rs, label) ==
    IF label \in DOMAIN bias_counts(rs) THEN bias_counts(rs)[label] ELSE 0

\* Mutant of StreamResult: the sources are counted, not the classifications.
StreamResult_CountSources(t, arts, rs, narr, report) ==
    [status |-> 200,
     topic |-> t,
     bias_counts |-> [b \in {"Left", "Center", "Right"} |-> CountOf(rs, b)],
     narratives |-> narr,
     omission_report |-> report,
     sources_count |-> Len(StreamSources(arts)),
     sources |-> StreamSources(arts)]

\* The data of the result event: {"success": True, "topic": topic, ...},
\* built by _run_analysis_stream itself from what the task returned.
StreamResult(t, arts, rs, narr, report) ==
    [status |-> 200,
     topic |-> t,
     bias_counts |-> [b \in {"Left", "Center", "Right"} |-> CountOf(rs, b)],
     narratives |-> narr,
     omission_report |-> report,
     sources_count |-> CountOf(rs, "Left") + CountOf(rs, "Center") + CountOf(rs, "Right"),
     sources |-> StreamSources(arts)]

\* Mutant of Closing: the error holder is not looked at.
Closing_NoRaise(err, d) == <<Progress("analysis", 95), Result(d), Sentinel>>

\* What _run_analysis_stream puts once the analysis thread is joined.
Closing(err, d) ==
    IF err # "None"
    THEN Abort("analysis error")
    ELSE <<Progress("analysis", 95), Result(d), Sentinel>>

\* analysis_done.wait returns True: join, the 95% event and the result, or the
\* error of the task; the finally puts None.
StreamFinish ==
    /\ streamPc = "analysis"
    /\ analysis_done
    /\ Put(Closing(analysis_error_holder,
                   StreamResult(topic[1], articles[1], results[1], narratives[1],
                                omission_report[1])))
    /\ streamPc' = "closed"
    /\ UNCHANGED <<table, runCount, apiVars, agentVars, consPc, frames, discVars, scraped,
                   current_pct, analysis_done, analysis_result_holder,
                   analysis_error_holder>>

\* Mutant of Yielded: the None is yielded as a frame too.
Yielded_All(item) == <<item>>

\* What _sse_generate yields for an item of the queue: nothing for None.
Yielded(item) == IF item = Sentinel THEN <<>> ELSE <<item>>

\* _sse_generate: q.get(), break on None, else yield the frame.
SseRead ==
    /\ consPc = "reading"
    /\ out_queue # <<>>
    /\ frames' = frames \o Yielded(Head(out_queue))
    /\ consPc' = IF Head(out_queue) = Sentinel THEN "closed" ELSE "reading"
    /\ out_queue' = Tail(out_queue)
    /\ UNCHANGED <<table, runCount, apiVars, agentVars, discVars, streamPc, sent, scraped,
                   current_pct, analysis_done, analysis_result_holder,
                   analysis_error_holder>>

\* ---------------------------------------------------------- specifications
Init ==
    /\ table = <<>>
    /\ runCount = 0
    /\ apiPc = [r \in Runs |-> "idle"]
    /\ topic = [r \in Runs |-> ""]
    /\ urls = [r \in Runs |-> <<>>]
    /\ articles = [r \in Runs |-> <<>>]
    /\ attempt = [r \in Runs |-> 0]
    /\ slept = [r \in Runs |-> 0]
    /\ data = [r \in Runs |-> <<>>]
    /\ response = [r \in Runs |-> NoResponse]
    /\ agPc = [r \in Runs |-> "off"]
    /\ valid_articles = [r \in Runs |-> <<>>]
    /\ idx = [r \in Runs |-> 1]
    /\ results = [r \in Runs |-> <<>>]
    /\ analysis = [r \in Runs |-> NoAnalysis]
    /\ cached_result = [r \in Runs |-> NoRow]
    /\ existing = [r \in Runs |-> NoRow]
    /\ narratives = [r \in Runs |-> NoNarratives]
    /\ omission_report = [r \in Runs |-> ""]
    /\ log = [r \in Runs |-> <<>>]
    /\ startTable = [r \in Runs |-> <<>>]
    /\ dropped = [r \in Runs |-> {}]
    /\ store_errors = [r \in Runs |-> {}]
    /\ in_flight = [r \in Runs |-> {}]
    /\ session = [r \in Runs |-> "none"]
    /\ streamPc = "off"
    /\ consPc = "off"
    /\ out_queue = <<>>
    /\ sent = <<>>
    /\ frames = <<>>
    /\ scraped = 0
    /\ current_pct = 0
    /\ analysis_done = FALSE
    /\ analysis_result_holder = "None"
    /\ analysis_error_holder = "None"
    /\ dPc = "idle"
    /\ api_key = FALSE
    /\ queries = <<>>
    /\ answers = <<>>
    /\ collected_urls = <<>>
    /\ unique_urls = <<>>

\* Requests to /api/analyze served one after another.
Next ==
    \/ analyze_topic(1)
    \/ Discover(1)
    \/ FetchSleep(1)
    \/ FetchRetry(1)
    \/ FetchArticles(1)
    \/ CheckArticles(1)
    \/ AgentStep(1)
    \/ Respond(1)
    \/ RespondError(1)

Spec == Init /\ [][Next]_vars

\* run_full_analysis called run after run over a store whose operations may
\* raise.
NextStore ==
    \/ CallRunFullAnalysis(1)
    \/ AgentStep(1)
    \/ StoreFault(1)

SpecStore == Init /\ [][NextStore]_vars

\* A direct call over a table that holds an entry.
CallOverEntries(r) ==
    /\ table # <<>>
    /\ CallRunFullAnalysis(r)

\* Concurrent threads calling run_full_analysis on a table that already
\* holds an entry.
NextCache ==
    \/ StartOverEntries
    \/ \E r \in Runs :
          \/ CallOverEntries(r)
          \/ AgentStep(r)

SpecCache == Init /\ [][NextCache]_vars

\* One call of run_full_analysis with up to three articles.
NextLanes ==
    \/ CallWithLanes(1)
    \/ AgentStep(1)

SpecLanes == Init /\ [][NextLanes]_vars

\* get_news_urls called on its own, call after call.
NextDiscovery ==
    \/ CallGetNewsUrls
    \/ GenerateQueries
    \/ SearchQuery
    \/ ReturnUrls

SpecDiscovery == Init /\ [][NextDiscovery]_vars

\* Concurrent threads calling run_full_analysis on the shared table.
NextConc ==
    \E r \in Runs :
        \/ CallRunFullAnalysis(r)
        \/ AgentStep(r)

SpecConc == Init /\ [][NextConc]_vars

\* One request to /api/analyze/stream: producer, analysis thread, consumer.
NextStream ==
    \/ analyze_topic_stream
    \/ StreamBegin
    \/ StreamDiscover
    \/ ScrapeProgress
    \/ ScrapeReturn
    \/ ScrapeRaise
    \/ AgentStep(1)
    \/ run_analysis_task
    \/ HeartbeatTimeout
    \/ Heartbeat
    \/ StreamFinish
    \/ SseRead

SpecStream == Init /\ [][NextStream]_vars

\* The threads of the producer side run whenever they can: the stream thread,
\* the analysis thread and the collaborators they call all return.  Nothing
\* is assumed of the consumer, which may stop reading at any point.
ProducerFairness ==
    /\ WF_vars(StreamBegin)
    /\ WF_vars(StreamDiscover)
    /\ WF_vars(ScrapeProgress)
    /\ WF_vars(ScrapeReturn \/ ScrapeRaise)
    /\ WF_vars(AgentStep(1))
    /\ WF_vars(run_analysis_task)
    /\ WF_vars(Heartbeat)
    /\ WF_vars(StreamFinish)

SpecStreamFair == SpecStream /\ ProducerFairness

\* The first request a fresh service receives, on either endpoint.
FirstRequest ==
    /\ apiPc[1] = "idle"
    /\ analyze_topic(1) \/ analyze_topic_stream

\* One request to /api/analyze or to /api/analyze/stream, from its checks to
\* its response or its last frame.
NextApi ==
    \/ FirstRequest
    \/ Discover(1)
    \/ FetchSleep(1)
    \/ FetchRetry(1)
    \/ FetchArticles(1)
    \/ CheckArticles(1)
    \/ AgentStep(1)
    \/ Respond(1)
    \/ RespondError(1)
    \/ StreamBegin
    \/ StreamDiscover
    \/ ScrapeProgress
    \/ ScrapeReturn
    \/ ScrapeRaise
    \/ run_analysis_task
    \/ HeartbeatTimeout
    \/ Heartbeat
    \/ StreamFinish
    \/ SseRead

SpecApi == Init /\ [][NextApi]_vars

\* ------------------------------------------------------------------ claims
TerminalAt == {i \in DOMAIN sent : sent[i].event \in {"result", "error"}}

ProgressAt == {i \in DOMAIN sent : sent[i].event = "progress"}

SentinelAt == {i \in DOMAIN sent : sent[i].event = "None"}

\* C1: the events of a streaming run are progress events followed by exactly
\* one terminal event, result or error; no event follows the terminal event,
\* and a run that has ended has put one.
C1_OneTerminalEvent ==
    /\ Cardinality(TerminalAt) <= 1
    /\ \A i \in TerminalAt : /\ \A j \in 1..(i - 1) : j \in ProgressAt
                             /\ \A j \in (i + 1)..Len(sent) : j \in SentinelAt
    /\ TerminalAt = {} => \A j \in DOMAIN sent : j \in ProgressAt
    /\ streamPc = "closed" => Cardinality(TerminalAt) = 1

\* A run whose background analysis task raised has ended with the error event.
C1_Witness ==
    /\ streamPc = "closed"
    /\ analysis_error_holder = "error"
    /\ sent[Len(sent) - 1].event = "error"
    /\ Len(sent) > 7

\* C2: within a streaming run the percent of successive progress events never
\* decreases.
C2_PercentNonDecreasing ==
    \A i, j \in ProgressAt : i < j => sent[i].progress <= sent[j].progress

\* A finished run with a per-item scraping event, a heartbeat and the 95 event.
C2_Witness ==
    /\ streamPc = "closed"
    /\ \E i, j, k \in ProgressAt :
          /\ sent[i].phase = "scraping" /\ sent[i].progress = 37
          /\ sent[j].phase = "analysis" /\ sent[j].progress = 92
          /\ sent[k].progress = 95

\* C3: one sentinel, the last item, after the terminal event, closes the
\* channel of every run; the consumer yields the items before it once each,
\* in the order they were put, stops at it and never yields it.
C3_OneSentinelNeverYielded ==
    /\ Cardinality(SentinelAt) <= 1
    /\ \A i \in SentinelAt : /\ i = Len(sent)
                             /\ i > 1
                             /\ sent[i - 1].event \in {"result", "error"}
    /\ streamPc = "closed" <=> SentinelAt # {}
    /\ \A i \in DOMAIN frames : frames[i].event # "None" /\ frames[i] = sent[i]
    /\ Len(frames) <= Len(sent)
    /\ consPc = "reading" => Len(frames) + Len(out_queue) = Len(sent)
    /\ consPc = "closed" => /\ SentinelAt # {}
                            /\ Len(frames) = Len(sent) - 1
                            /\ out_queue = <<>>

\* The consumer has stopped at the sentinel of a run that ended with a result.
C3_Witness ==
    /\ consPc = "closed"
    /\ Len(frames) > 6
    /\ frames[Len(frames)].event = "result"


\* Rows of a table for a URL.
EntriesOf(tbl, u) == {k \in DOMAIN tbl : tbl[k].url = u}

\* The classification stage of run r is over.
Classified(r) == agPc[r] \in {"synth_left", "synth_right", "omission", "returned", "raised"}

\* C4 as the specification states it: in a successful response the counts
\* add up to the number of sources and to the number of classified articles.
C4_CountsMatchSources ==
    \A r \in Runs :
        response[r].status = 200 =>
            /\ SumCounts(response[r].bias_counts) = Len(response[r].sources)
            /\ Len(response[r].sources) = Len(results[r])

\* The articles of run r that carry a URL, and the place of article i among them.
WithUrl(r) == {i \in DOMAIN articles[r] : articles[r][i].url # ""}

PlaceOf(r, i) == Cardinality({j \in WithUrl(r) : j <= i})

\* C5 (amended): sources holds, in the order of the retrieved articles, one
\* entry for every retrieved article that has a URL; a URL retrieved twice is
\* listed twice.
C5_SourcesFollowArticles ==
    \A r \in Runs :
        response[r].status = 200 =>
            /\ Len(response[r].sources) = Cardinality(WithUrl(r))
            /\ \A i \in WithUrl(r) : response[r].sources[PlaceOf(r, i)] = articles[r][i].url

\* A successful response over two retrieved articles of the same URL.
C5_Witness ==
    /\ response[1].status = 200
    /\ Len(articles[1]) = 2
    /\ articles[1][1].url = articles[1][2].url
    /\ response[1].sources = <<articles[1][1].url, articles[1][2].url>>

\* C5 as the specification states it: no URL is listed twice in sources.
C5_SourcesDeduplicated ==
    \A r \in Runs :
        response[r].status = 200 =>
            \A i, j \in DOMAIN response[r].sources :
                response[r].sources[i] = response[r].sources[j] => i = j

\* C6 as the specification states it: the articles submitted to
\* classification are those whose resolved content has at least 100 characters.
C6_SubmittedIffAtLeastMin ==
    \A r \in Runs :
        agPc[r] \notin {"off", "init"} =>
            Len(valid_articles[r]) =
                Cardinality({i \in DOMAIN articles[r] : ResolvedLen(articles[r][i]) >= MinContent})

\* Every article run r classifies has an entry, written before the run
\* started, whose topic is not the topic of the run.
CachedUnderOtherTopic(r) ==
    /\ agPc[r] \notin {"off", "init"}
    /\ valid_articles[r] # <<>>
    /\ \A i \in DOMAIN valid_articles[r] :
          /\ EntriesOf(startTable[r], valid_articles[r][i].url) # {}
          /\ \A k \in EntriesOf(startTable[r], valid_articles[r][i].url) :
                startTable[r][k].topic # topic[r]

\* Those entries all hold a summary.
EntriesHoldSummary(r) ==
    \A i \in DOMAIN valid_articles[r] :
        \A k \in EntriesOf(startTable[r], valid_articles[r][i].url) :
            startTable[r][k].summary # ""

\* No classification call, the bias and summary of the entries, and, once the
\* stage is over, every entry rebound to the topic of the run.
RerunOutcome(r) ==
    /\ \A c \in DOMAIN log[r] : log[r][c].kind # "classify"
    /\ \A i \in DOMAIN results[r] :
          \A k \in EntriesOf(startTable[r], valid_articles[r][i].url) :
              results[r][i] = [bias |-> startTable[r][k].bias_rating,
                               summary |-> startTable[r][k].summary]
    /\ Classified(r) =>
          /\ Len(results[r]) = Len(valid_articles[r])
          /\ \A i \in DOMAIN valid_articles[r] :
                \A k \in EntriesOf(table, valid_articles[r][i].url) :
                    /\ table[k].topic = topic[r]
                    /\ table[k].bias_rating = startTable[r][k].bias_rating
                    /\ table[k].summary = startTable[r][k].summary

C9_OneEntryPerUrl ==
    \A u \in Urls : Cardinality(EntriesOf(table, u)) <= 1

\* The state part of C10: every article is processed and only the failed ones
\* are missing from the results; the run does not end in the classification.
FailuresOnlyDrop(r) ==
    /\ Classified(r) =>
          /\ idx[r] = Len(valid_articles[r]) + 1 \/ valid_articles[r] = <<>>
          /\ Len(results[r]) = Len(valid_articles[r]) - Cardinality(dropped[r])
    /\ agPc[r] = "raised" =>
          /\ log[r] # <<>>
          /\ log[r][Len(log[r])].kind \in {"synthesize", "omission"}

\* The step part of C10: the step on which an inference fails.
FailureStep(r) ==
    (dropped[r] \subseteq dropped'[r] /\ dropped'[r] # dropped[r]) =>
        /\ table' = table
        /\ results'[r] = results[r]
        /\ agPc'[r] = (IF idx'[r] <= Len(valid_articles[r]) THEN "lookup" ELSE "synth_left")

\* C10: a failed inference adds no result, leaves the table as it is and does
\* not end the run: the next article, or the synthesis, comes next.
C10_InferenceFailureDropsOnly ==
    /\ [](\A r \in Runs : FailuresOnlyDrop(r))
    /\ [][\A r \in Runs : FailureStep(r)]_vars

\* A run that returned although the inference of its first article failed.
C10_Witness ==
    /\ agPc[1] = "returned"
    /\ 1 \in dropped[1]
    /\ Len(valid_articles[1]) = 2
    /\ Len(results[1]) = 1
    /\ EntriesOf(table, valid_articles[1][1].url) = {}
    /\ \E c \in DOMAIN log[1] : log[1][c].kind = "omission"

\* C11 as the specification states it: a store operation that raises never
\* ends the run, and the article it concerns is still classified and counted
\* unless its inference fails.
C11_StoreFailureNeverAborts ==
    \A r \in Runs :
        store_errors[r] # {} =>
            /\ agPc[r] = "raised" =>
                  /\ log[r] # <<>>
                  /\ log[r][Len(log[r])].kind \in {"synthesize", "omission"}
            /\ Classified(r) /\ agPc[r] # "raised" =>
                  /\ Len(results[r]) = Len(valid_articles[r]) - Cardinality(dropped[r])
                  /\ \A i \in store_errors[r] \ {0} :
                        \E c \in DOMAIN log[r] :
                            /\ log[r][c].kind = "classify"
                            /\ log[r][c].arg = valid_articles[r][i].url

\* The synthesis calls of run r for a bias, and its omission calls.
SynthCalls(r, b) ==
    {c \in DOMAIN log[r] : log[r][c].kind = "synthesize" /\ log[r][c].arg = b}

OmissionCalls(r) == {c \in DOMAIN log[r] : log[r][c].kind = "omission"}

\* The results labelled with a bias.
MembersOf(rs, b) == {i \in DOMAIN rs : rs[i].bias = b}

\* The narrative a side must have once its synthesis step is over.
NarrativeDue(r, b) ==
    IF MembersOf(results[r], b) = {} THEN Placeholder ELSE SynthText(b)

\* The synthesis step of run r for a bias is over.
SynthesisOver(r, b) ==
    agPc[r] \in (IF b = "Left" THEN {"synth_right", "omission", "returned"}
                 ELSE {"omission", "returned"})

\* C12: synthesis is invoked for Left and Right only, at most once each and
\* only for a non-empty group; once the step of a side is over, the call was
\* made iff its group is non-empty, and an empty group has the placeholder.
C12_SynthesisOnlyForNonEmpty ==
    \A r \in Runs :
        /\ \A c \in DOMAIN log[r] :
              log[r][c].kind = "synthesize" => log[r][c].arg \in {"Left", "Right"}
        /\ \A b \in {"Left", "Right"} :
              /\ Cardinality(SynthCalls(r, b)) <= 1
              /\ SynthCalls(r, b) # {} => MembersOf(results[r], b) # {}
              /\ SynthesisOver(r, b) =>
                    /\ SynthCalls(r, b) # {} <=> MembersOf(results[r], b) # {}
                    /\ narratives[r][b] = NarrativeDue(r, b)

\* A returned run with a synthesized Left, an empty Right and a result that
\* counts as Center.
C12_Witness ==
    /\ agPc[1] = "returned"
    /\ narratives[1]["Left"] = SynthText("Left")
    /\ narratives[1]["Right"] = Placeholder
    /\ SynthCalls(1, "Left") # {} /\ SynthCalls(1, "Right") = {}
    /\ \E i \in DOMAIN results[1] : results[1][i].bias \notin {"Left", "Right"}

\* C13 (amended): no run invokes omission detection twice; a run that returns
\* invoked it exactly once, with the placeholder for an empty side and the
\* synthesized text for a non-empty one; it is not invoked before the
\* narratives are set, and a run that raised without it raised in a synthesis.
C13_OmissionOnceWhenReached ==
    \A r \in Runs :
        /\ Cardinality(OmissionCalls(r)) <= 1
        /\ agPc[r] = "returned" => Cardinality(OmissionCalls(r)) = 1
        /\ OmissionCalls(r) # {} => agPc[r] \in {"returned", "raised"}
        /\ \A c \in OmissionCalls(r) :
              /\ log[r][c].arg = NarrativeDue(r, "Left")
              /\ log[r][c].arg2 = NarrativeDue(r, "Right")
        /\ agPc[r] = "raised" /\ OmissionCalls(r) = {} =>
              /\ log[r] # <<>>
              /\ log[r][Len(log[r])].kind = "synthesize"

\* A returned run in which no article was classified: omission detection
\* received the two placeholders.
C13_Witness ==
    /\ agPc[1] = "returned"
    /\ results[1] = <<>>
    /\ \E c \in OmissionCalls(1) :
          log[1][c].arg = Placeholder /\ log[1][c].arg2 = Placeholder

\* C13 as the specification states it: every run that ended invoked omission
\* detection exactly once.
C13_OmissionOncePerRun ==
    \A r \in Runs :
        agPc[r] \in {"returned", "raised"} => Cardinality(OmissionCalls(r)) = 1

\* ---------------------------------------------------------------- C16
\* The indexes of a scraper response whose item has status success and, once
\* surrounding whitespace is removed, at least 100 characters of content.
StrippedUsableIdx(d) ==
    {k \in DOMAIN d : d[k].status = "success" /\ d[k].content - d[k].pad >= 100}

\* The same with the length of the content as the scraper sent it.
RawUsableIdx(d) ==
    {k \in DOMAIN d : d[k].status = "success" /\ d[k].content >= 100}

\* arts holds one article per index of keep, in the order of the response d.
ReturnsItems(arts, d, keep) ==
    /\ Len(arts) = Cardinality(keep)
    /\ \A k \in keep :
          LET at == Cardinality({j \in keep : j <= k})
          IN  /\ arts[at].url = d[k].url
              /\ arts[at].content = d[k].content - d[k].pad

\* The time waited in total once the n-th attempt starts: 0, 0+5, 0+5+15,
\* 0+5+15+25.
WaitedByAttempt == <<0, 5, 20, 45>>

\* What holds while fetch_articles runs and when it has returned, usable
\* being the set of indexes the claim counts as usable.
FetchContract(usable(_)) ==
    /\ apiPc[1] = "request" =>
          /\ attempt[1] < 4
          /\ slept[1] = WaitedByAttempt[attempt[1] + 1]
    /\ apiPc[1] = "fetched" =>
          /\ attempt[1] \in 1..4
          /\ slept[1] = WaitedByAttempt[attempt[1]]
          /\ ReturnsItems(articles[1], data[1], usable(data[1]))
          /\ articles[1] = <<>> => attempt[1] = 4

\* An attempt is followed by another one only if it gave no usable item, and
\* one that gave a usable item is the last.
FetchStops(usable(_)) ==
    /\ apiPc[1] = "request" /\ apiPc'[1] = "fetch" => usable(data'[1]) = {}
    /\ apiPc[1] = "request" /\ apiPc'[1] = "fetched" /\ usable(data'[1]) = {}
          => attempt'[1] = 4

\* C16 (corrected): fetch_articles makes at most 4 attempts, having waited 0,
\* 5, 15 and 25 time units before attempts 1 to 4; it returns at the first
\* attempt whose response holds an item with status success and at least 100
\* characters of content after surrounding whitespace is removed, returning
\* exactly those items in response order; when no attempt gives such an
\* item it returns the empty list after the fourth.
C16_ReturnsFirstUsableStripped ==
    /\ [](FetchContract(StrippedUsableIdx))
    /\ [][FetchStops(StrippedUsableIdx)]_vars

\* The third attempt returned one article out of a response of two items.
C16_Witness ==
    /\ apiPc[1] = "fetched"
    /\ attempt[1] = 3
    /\ slept[1] = 20
    /\ Len(data[1]) = 2
    /\ Len(articles[1]) = 1
    /\ RawUsableIdx(data[1]) = {1, 2}

\* C16 as the specification states it: the items returned are those with
\* status success and content length >= 100.
C16_ReturnsFirstUsable == FetchContract(RawUsableIdx)

\* ---------------------------------------------------------------- C14
\* The request was refused by the checks on the topic or on the credentials.
Rejected ==
    /\ response[1].status \in {400, 500}
    /\ response[1].detail \in {"Topic is required", "API keys not configured"}

\* No stage has run for the request and nothing was started or emitted.
NothingRan ==
    /\ urls[1] = <<>> /\ attempt[1] = 0 /\ data[1] = <<>> /\ articles[1] = <<>>
    /\ agPc[1] = "off" /\ log[1] = <<>> /\ table = <<>>
    /\ streamPc = "off" /\ consPc = "off" /\ scraped = 0
    /\ out_queue = <<>> /\ sent = <<>> /\ frames = <<>>
    /\ ~analysis_done

\* C14: on both endpoints a topic that is empty or only blanks is refused
\* with 400 and missing credentials with 500, before any stage runs: no
\* discovery, retrieval, inference or cache call is made, no thread is
\* started and no stream event is emitted; a request that goes on has a
\* non-blank topic.
C14_RejectedBeforeAnyStage ==
    /\ \A raw \in RawTopics, env \in Envs :
          LET blank == \A k \in DOMAIN raw : raw[k] = " "
              creds == env.GROQ_API_KEY /\ (env.SERP_API_KEY \/ env.SERPAPI_KEY)
          IN  /\ blank => Gate(raw, env).status = 400
              /\ ~blank /\ ~creds => Gate(raw, env).status = 500
              /\ ~blank /\ creds => Gate(raw, env).status = 0
    /\ Rejected => apiPc[1] = "done" /\ NothingRan
    /\ apiPc[1] # "idle" /\ ~Rejected => topic[1] \in {"T1", "T2"}

\* A request was refused: here a topic of blanks.
C14_Witness ==
    /\ Rejected
    /\ response[1].status = 400
    /\ apiPc[1] = "done"

\* ---------------------------------------------------------------- C15
NotFound == Failure(404, "No relevant sources found for this topic")

Unavailable == Failure(503, "Could not fetch article content")

\* The stream carries exactly one error event, it has detail det, it is the
\* last event, the closing None follows it and there is no result event.
StreamAbortedWith(det) ==
    /\ Len(sent) >= 2
    /\ sent[Len(sent)] = Sentinel
    /\ sent[Len(sent) - 1] = ErrorEvent(det)
    /\ \A k \in 1..(Len(sent) - 2) : sent[k].event = "progress"

\* No classification, synthesis, omission or cache write happened.
NoAnalysisStage ==
    /\ agPc[1] = "off" /\ log[1] = <<>> /\ results[1] = <<>> /\ table = <<>>
    /\ ~analysis_done

StagesStopOnEmpty ==
    /\ apiPc[1] \in {"fetch", "request"} => urls[1] # <<>>
    /\ streamPc = "scraping" => urls[1] # <<>>
    /\ agPc[1] # "off" => articles[1] # <<>>
    /\ response[1] = NotFound =>
          /\ apiPc[1] = "done" /\ NoAnalysisStage
          /\ urls[1] = <<>> /\ attempt[1] = 0 /\ data[1] = <<>> /\ articles[1] = <<>>
    /\ response[1] = Unavailable =>
          apiPc[1] = "done" /\ NoAnalysisStage /\ articles[1] = <<>>
    /\ \A k \in DOMAIN sent :
          sent[k] = ErrorEvent("No relevant sources found for this topic") =>
              /\ StreamAbortedWith("No relevant sources found for this topic")
              /\ streamPc = "closed" /\ NoAnalysisStage
              /\ scraped = 0 /\ articles[1] = <<>>
    /\ \A k \in DOMAIN sent :
          sent[k] = ErrorEvent("Could not fetch article content") =>
              /\ StreamAbortedWith("Could not fetch article content")
              /\ streamPc = "closed" /\ NoAnalysisStage

EmptyAborts ==
    /\ apiPc[1] = "discover" /\ apiPc'[1] # "discover" /\ urls'[1] = <<>>
          => response'[1] = NotFound /\ apiPc'[1] = "done"
    /\ apiPc[1] = "fetched" /\ apiPc'[1] # "fetched" /\ articles[1] = <<>>
          => response'[1] = Unavailable /\ apiPc'[1] = "done"
    /\ streamPc = "discovery" /\ streamPc' # "discovery" /\ urls'[1] = <<>>
          => /\ streamPc' = "closed"
             /\ sent' = sent \o <<ErrorEvent("No relevant sources found for this topic"),
                                   Sentinel>>
    /\ streamPc = "scraping" /\ streamPc' # "scraping" /\ articles'[1] = <<>>
          => /\ streamPc' = "closed"
             /\ \E det \in {"Could not fetch article content", "exception"} :
                   sent' = sent \o <<ErrorEvent(det), Sentinel>>

\* C15: an empty discovery result ends the request with 404, an empty
\* retrieval result with 503, and on the stream with one error event that
\* is the last event before the queue is closed; retrieval runs only on a
\* non-empty URL list, and classification, synthesis, omission detection
\* and cache writes only on a non-empty article list.
C15_EmptyStageAborts ==
    /\ []StagesStopOnEmpty
    /\ [][EmptyAborts]_vars

\* The synchronous endpoint answered 503: discovery gave URLs and none of
\* the attempts of the retrieval gave a usable article.
C15_Witness ==
    /\ response[1] = Unavailable
    /\ apiPc[1] = "done"
    /\ topic[1] = "T1"

\* ---------------------------------------------------------------- C19
AnalysisAt == {i \in DOMAIN sent : sent[i].event = "progress" /\ sent[i].phase = "analysis"}

\* The final progress event: the one the result follows.
FinalAt == {i \in AnalysisAt : i < Len(sent) /\ sent[i + 1].event = "result"}

\* The heartbeats: the analysis events after the first, the final one apart.
HeartbeatAt == {i \in AnalysisAt \ FinalAt : \E j \in AnalysisAt : j < i}

\* C19: the analysis phase opens at 65, every heartbeat reports exactly 3
\* more than the analysis event before it and never more than 92, however
\* many times the wait of the loop times out; the final event reports 95,
\* above every heartbeat and below 100.
C19_HeartbeatStepsToCeiling ==
    /\ \A i \in AnalysisAt : (\A j \in AnalysisAt : i <= j) => sent[i].progress = 65
    /\ \A i \in HeartbeatAt :
          /\ (i - 1) \in AnalysisAt
          /\ sent[i].progress = sent[i - 1].progress + 3
          /\ sent[i].progress <= 92
    /\ \A i \in FinalAt :
          /\ sent[i].progress = 95
          /\ \A j \in HeartbeatAt : j < i /\ sent[j].progress < 95
    /\ current_pct <= 92
    /\ 92 < 95 /\ 95 < 100

\* The heartbeat reached 92 and the wait timed out once more while the task
\* was still running.
C19_Witness ==
    /\ streamPc = "beat"
    /\ current_pct = 92
    /\ ~analysis_done
    /\ Cardinality(HeartbeatAt) = 9
    /\ sent[Len(sent)].progress = 92

\* ---------------------------------------------------------------- C20
ResultAt == {i \in DOMAIN sent : sent[i].event = "result"}

\* The value run_full_analysis returned, as the result event carries it.
TaskValue ==
    AnalysisResponse(topic[1], articles[1], results[1], narratives[1], omission_report[1])

ResultAfterCompletion ==
    \A i \in ResultAt :
        /\ analysis_done
        /\ agPc[1] = "returned"
        /\ analysis_result_holder # "None"
        /\ analysis_error_holder = "None"
        /\ sent[i].data = TaskValue
        /\ sent[i].data # NoResponse

\* The steps of the producer once the task has finished.
AfterCompletion ==
    /\ streamPc' = "beat" /\ streamPc # "beat" => ~analysis_done
    /\ analysis_done /\ sent' # sent =>
          \/ /\ streamPc = "beat" /\ streamPc' = "analysis"
             /\ \E pct \in 68..92 : sent' = Append(sent, Progress("analysis", pct))
          \/ /\ streamPc = "analysis" /\ streamPc' = "closed"
             /\ agPc[1] = "returned"
             /\ sent' = sent \o <<Progress("analysis", 95), Result(TaskValue), Sentinel>>
          \/ /\ streamPc = "analysis" /\ streamPc' = "closed"
             /\ agPc[1] = "raised"
             /\ sent' = sent \o <<ErrorEvent("analysis error"), Sentinel>>

\* C20 (corrected): the wait of the heartbeat loop times out only while the
\* task is running, so that after the task has finished at most the one
\* heartbeat whose wait had already timed out is emitted; then come the 95%
\* event followed by the result, which carries the value the task
\* returned, or the error event alone if the task raised, and no heartbeat
\* follows them.
C20_HeartbeatsEndWithTask ==
    /\ []ResultAfterCompletion
    /\ [][AfterCompletion]_vars

\* A run that ended with heartbeats, the 95% event and the result.
C20_Witness ==
    /\ streamPc = "closed"
    /\ ResultAt # {}
    /\ Cardinality(HeartbeatAt) = 2
    /\ FinalAt # {}

\* C20 as the specification states it: a heartbeat is emitted only while the
\* task is still running.
C20_HeartbeatOnlyWhileRunning ==
    [][streamPc = "beat" /\ sent' # sent => ~analysis_done]_vars

\* ---------------------------------------------------------------- C17
\* The first five links of a search answer, none for a search that failed.
UpToFive(ans) ==
    IF ans.failed THEN <<>>
    ELSE [k \in 1..(IF Len(ans.links) < 5 THEN Len(ans.links) ELSE 5) |-> ans.links[k]]

RECURSIVE CollectedFrom(_)
CollectedFrom(given) ==
    IF given = <<>> THEN <<>>
    ELSE CollectedFrom(SubSeq(given, 1, Len(given) - 1)) \o UpToFive(given[Len(given)])

\* Where link x occurs first in the list col.
FirstAt(col, x) == CHOOSE k \in DOMAIN col : col[k] = x /\ \A j \in 1..(k - 1) : col[j] # x

\* C17: get_news_urls returns no URL twice, in the order of first occurrence
\* among the links collected query by query, at most 5 per query, and at
\* most 18 of them; a query whose search fails adds nothing and the queries
\* after it are still searched; without a credential it returns the empty
\* list and searches nothing.
C17_DeduplicatedOrderedCapped ==
    dPc = "returned" =>
        IF ~api_key THEN unique_urls = <<>> /\ answers = <<>>
        ELSE LET col == CollectedFrom(answers)
                 u == unique_urls
             IN  /\ Len(answers) = Len(queries)
                 /\ collected_urls = col
                 /\ \A i, j \in DOMAIN u : u[i] = u[j] => i = j
                 /\ Len(u) <= 18
                 /\ \A i \in DOMAIN u : \E k \in DOMAIN col : col[k] = u[i]
                 /\ \A i, j \in DOMAIN u : i < j => FirstAt(col, u[i]) < FirstAt(col, u[j])
                 /\ \A k \in DOMAIN col :
                       \/ \E i \in DOMAIN u : u[i] = col[k]
                       \/ /\ Len(u) = 18
                          /\ \A i \in DOMAIN u : FirstAt(col, u[i]) < k

\* Four queries, one of them failing, one answering six links of which a
\* link is already collected: fifteen links collected, fourteen returned.
C17_Witness ==
    /\ dPc = "returned"
    /\ api_key
    /\ Len(answers) = 4
    /\ answers[2].failed
    /\ answers[1] = Answer(FALSE, <<1, 2, 3, 4, 5, 6>>)
    /\ answers[4] = Answer(FALSE, <<1, 1, 6, 2>>)
    /\ unique_urls = <<1, 2, 3, 4, 5, 11, 12, 13, 14, 15, 6>>

\* ---------------------------------------------------------------- C18
\* C18: whatever the outcome of query generation, generate_search_queries
\* returns at least 3 queries.
C18_AtLeastThreeQueries ==
    dPc = "search" => Len(queries) >= 3

\* ---------------------------------------------------------------- C21
\* Every valid article of the run has been through process_article: each
\* gave a result or was dropped, no call is in flight, no session is open.
ClassificationOver(r) ==
    /\ idx[r] = Len(valid_articles[r]) + 1
    /\ Len(results[r]) + Cardinality(dropped[r]) = Len(valid_articles[r])
    /\ in_flight[r] = {}
    /\ session[r] = "none"

\* The place of an inference call in the order of the stages.
StageRank(call) ==
    IF call.kind = "classify" THEN 1
    ELSE IF call.kind = "synthesize" /\ call.arg = "Left" THEN 2
    ELSE IF call.kind = "synthesize" THEN 3
    ELSE 4

StagesInOrder ==
    /\ agPc[1] \in {"synth_left", "synth_right", "omission", "returned"} => ClassificationOver(1)
    /\ \A i, j \in DOMAIN log[1] :
          i < j => /\ StageRank(log[1][i]) <= StageRank(log[1][j])
                   /\ StageRank(log[1][j]) > 1 => StageRank(log[1][i]) < StageRank(log[1][j])
    /\ \A i \in DOMAIN log[1] : StageRank(log[1][i]) > 1 => ClassificationOver(1)

\* A step that makes an inference call of step 2 or step 3.
StageStarts ==
    \A k \in 2..4 :
        (/\ Len(log'[1]) = Len(log[1]) + 1
         /\ StageRank(log'[1][Len(log'[1])]) = k)
        => /\ ClassificationOver(1)
           /\ k >= 3 => narratives[1]["Left"] # ""
           /\ k = 4 => /\ narratives[1]["Right"] # ""
                        /\ log'[1][Len(log'[1])].arg = narratives[1]["Left"]
                        /\ log'[1][Len(log'[1])].arg2 = narratives[1]["Right"]
                        /\ narratives'[1] = narratives[1]

\* C21: in a run no synthesis call is made before every valid article has
\* left classification (cache hit, inference success or inference failure);
\* the Left synthesis call has returned before the Right one is made; the
\* omission call is made after both narratives are fixed and receives them.
C21_StagesStrictlyOrdered ==
    /\ []StagesInOrder
    /\ [][StageStarts]_vars

\* A run of two articles that made every call: two classifications, the
\* two syntheses and the omission detection.
C21_Witness ==
    /\ agPc[1] = "returned"
    /\ Len(valid_articles[1]) = 2
    /\ Len(log[1]) = 5
    /\ log[1][3] = Call("synthesize", "Left", "")
    /\ log[1][4] = Call("synthesize", "Right", "")
    /\ log[1][5].kind = "omission"

\* ---------------------------------------------------------------- C22
\* C22: at every moment of a run at most 5 classification inference calls
\* are in flight, whatever the number of valid articles and their lane: the
\* calls are made one after another, so that at most one is.
C22_InFlightWithinLimit ==
    \A r \in Runs :
        /\ Cardinality(in_flight[r]) <= 5
        /\ Cardinality(in_flight[r]) <= 1
        /\ in_flight[r] \subseteq DOMAIN valid_articles[r]

\* The call for the second of two valid articles, the one of the second
\* lane, is in flight after the first was classified.
C22_Witness ==
    /\ Len(valid_articles[1]) = 2
    /\ in_flight[1] = {2}
    /\ Lane(valid_articles[1], 2) = "Scout"
    /\ Len(results[1]) = 1

\* ---------------------------------------------------------------- C23
\* The articles of run r after the current one that the cache does not hold.
PendingUncached(r) ==
    {j \in (idx[r] + 1)..Len(valid_articles[r]) :
        ~IsCacheHit(table, Matching(table, valid_articles[r][j].url))}

\* C23: classification runs in parallel: while the inference call of one
\* article is in flight, process_article can begin for another valid
\* uncached article of the run, so that two calls are in flight together.
C23_CallsOverlap ==
    in_flight[1] # {} /\ PendingUncached(1) # {} => ENABLED CacheLookup(1)

\* ---------------------------------------------------------------- C24
\* C24: while a worker's classification inference call is in flight the
\* worker holds no session: the lookup session is open only between a hit
\* and its commit, the save session only between the existence re-check
\* and its commit, which follow the return of the call.
C24_NoSessionAcrossInference ==
    \A r \in Runs :
        /\ in_flight[r] # {} => session[r] = "none" /\ agPc[r] = "infer"
        /\ agPc[r] = "infer" => in_flight[r] = {idx[r]}
        /\ session[r] = "lookup" => agPc[r] = "hit" /\ in_flight[r] = {}
        /\ session[r] = "save" =>
              /\ agPc[r] = "commit" /\ in_flight[r] = {}
              /\ analysis[r] \in InferAnswers

\* The commit of a cache hit raised and the inference call that follows is
\* in flight.
C24_Witness ==
    /\ agPc[1] = "infer"
    /\ in_flight[1] = {1}
    /\ session[1] = "none"
    /\ 1 \in store_errors[1]
    /\ table # <<>>

\* ---------------------------------------------------------------- C25
\* The results of the run whose label is none of Left, Center, Right.
Unexpected(rs) == {i \in DOMAIN rs : rs[i].bias \notin {"Left", "Center", "Right"}}

Labelled(rs, b) == {i \in DOMAIN rs : rs[i].bias = b}

\* C25: a result whose label is none of Left, Center, Right, whether it
\* comes from inference or from a cache entry, is counted under Center and
\* its summary is in the Center group, not in the Left or Right group; the
\* counts have exactly the keys Left, Center, Right.
C25_UnexpectedLabelIsCenter ==
    response[1].status = 200 =>
        LET rs == results[1]
            bc == response[1].bias_counts
        IN  /\ DOMAIN bc = {"Left", "Center", "Right"}
            /\ bc["Left"] = Cardinality(Labelled(rs, "Left"))
            /\ bc["Right"] = Cardinality(Labelled(rs, "Right"))
            /\ bc["Center"] = Cardinality(Labelled(rs, "Center")) + Cardinality(Unexpected(rs))
            /\ \A b \in {"Left", "Center", "Right"} :
                  Len(grouped_summaries(rs, b)) = bc[b]
            /\ \A i \in Unexpected(rs) :
                  \E k \in DOMAIN grouped_summaries(rs, "Center") :
                      grouped_summaries(rs, "Center")[k] = rs[i].summary
            /\ Labelled(rs, "Left") = {} => narratives[1]["Left"] = Placeholder
            /\ Labelled(rs, "Right") = {} => narratives[1]["Right"] = Placeholder

\* The second request found the entry of label Far in the cache: the
\* response counts it under Center and no classification call was made.
C25_Witness ==
    /\ runCount = 2
    /\ response[1].status = 200
    /\ Len(results[1]) = 1
    /\ results[1][1].bias = "Far"
    /\ response[1].bias_counts["Center"] = 1
    /\ log[1] # <<>>
    /\ \A i \in DOMAIN log[1] : log[1][i].kind # "classify"

\* ---------------------------------------------------------------- C26
\* Run r processed one article, found no usable cache entry for it, and its
\* inference and its save went through.
WroteEntry(r) ==
    /\ Len(valid_articles[r]) = 1
    /\ idx[r] = 2
    /\ Len(results[r]) = 1
    /\ store_errors[r] = {}
    /\ \E k \in DOMAIN log[r] : log[r][k] = Call("classify", valid_articles[r][1].url, "")

\* The entry as run r wrote it.
EntryOf(r) ==
    Row(topic[r], valid_articles[r][1].url, results[r][1].bias, results[r][1].summary,
        valid_articles[r][1].text)

\* C26: when two workers have processed the same uncached URL and both
\* inferences succeeded, the cache entry for the URL carries the bias,
\* summary, content and topic of one of them, the later writer.
C26_LastWriteWins ==
    (/\ WroteEntry(1) /\ WroteEntry(2)
     /\ valid_articles[1][1].url = valid_articles[2][1].url)
    => \E w \in Runs :
          \A i \in Matching(table, valid_articles[1][1].url) : table[i] = EntryOf(w)

\* ---------------------------------------------------------------- C27
\* Run r commits a cache hit in this step.
HitCommits(r) ==
    /\ agPc[r] = "hit"
    /\ agPc'[r] # "hit"
    /\ Len(results'[r]) = Len(results[r]) + 1

\* What the commit of the hit of run r may change in the table.
HitFrame(r) ==
    LET id == cached_result[r].id
    IN  /\ Len(table') = Len(table)
        /\ \A i \in DOMAIN table : i # id => table'[i] = table[i]
        /\ table'[id].url = table[id].url
        /\ table'[id].bias_rating = table[id].bias_rating
        /\ table'[id].summary = table[id].summary
        /\ table'[id].topic = topic[r]
        /\ table'[id].content =
              IF table[id].content = 0 THEN CurrentArticle(r).text ELSE table[id].content

\* C27: a cache hit never changes the entry's bias or summary, sets its
\* topic to the topic of the run, sets its content from the article only if
\* the entry had none, and creates no entry.
C27_HitChangesOnlyTopicAndMissingContent ==
    [][\A r \in Runs : HitCommits(r) => HitFrame(r)]_vars

\* ---------------------------------------------------------------- C29
\* The valid articles of the call, by the test of the filter.
ValidOf(arts) ==
    SelectSeq(arts, LAMBDA a : (IF a.content > 0 THEN a.content
                                ELSE IF a.text > 0 THEN a.text ELSE a.repr) > 100)

\* The two lanes of n articles: the first holds the indexes up to
\* floor(n/2), the second the others.
FirstLane(n) == {i \in 1..n : 2 * i <= n}

SecondLane(n) == {i \in 1..n : 2 * i > n}

LanesPartition ==
    agPc[1] \notin {"off", "init"} =>
        LET n == Len(ValidOf(articles[1]))
            v == valid_articles[1]
        IN  /\ Len(v) = n
            /\ \A i \in 1..n : v[i].url = ValidOf(articles[1])[i].url
            /\ Len(batch_a(v)) = Cardinality(FirstLane(n))
            /\ Len(batch_b(v)) = Cardinality(SecondLane(n))
            /\ 2 * Len(batch_a(v)) <= n /\ n < 2 * Len(batch_a(v)) + 2
            /\ Len(batch_b(v)) - Len(batch_a(v)) \in {0, 1}
            /\ \A i \in 1..n : Lane(v, i) = IF i \in FirstLane(n) THEN "Versatile" ELSE "Scout"
            /\ idx[1] \in 1..(n + 1)
            /\ Len(results[1]) + Cardinality(dropped[1]) =
                   idx[1] - 1
            /\ agPc[1] \in {"synth_left", "synth_right", "omission", "returned"}
                  => idx[1] = n + 1

\* Articles are taken one by one in lane order: the index never goes back
\* and never skips.
OneByOne ==
    agPc[1] \notin {"off", "init"} /\ idx'[1] # idx[1] =>
        /\ idx'[1] = idx[1] + 1
        /\ idx[1] \in DOMAIN valid_articles[1]
        /\ Len(results'[1]) + Cardinality(dropped'[1]) = idx[1]

\* C29: the valid articles are split by index in a first lane of
\* floor(n/2) articles and a second lane of the others, the sizes differing
\* by at most one; every valid article is in exactly one lane and goes
\* through process_article exactly once, in that order.
C29_LanesPartitionArticles ==
    /\ []LanesPartition
    /\ [][OneByOne]_vars

\* A run of three valid articles, one in the first lane and two in the
\* second, all of them processed.
C29_Witness ==
    /\ agPc[1] = "returned"
    /\ Len(valid_articles[1]) = 3
    /\ Len(batch_a(valid_articles[1])) = 1
    /\ Len(batch_b(valid_articles[1])) = 2
    /\ Len(results[1]) + Cardinality(dropped[1]) = 3

\* ---------------------------------------------------------------- C28
\* A step of the stream thread or of the analysis thread.
ProducerStep ==
    \/ StreamBegin
    \/ StreamDiscover
    \/ ScrapeProgress
    \/ ScrapeReturn
    \/ ScrapeRaise
    \/ AgentStep(1)
    \/ run_analysis_task
    \/ HeartbeatTimeout
    \/ Heartbeat
    \/ StreamFinish

StreamRunning == streamPc \notin {"off", "closed"}

\* The run is over: the terminal event, then the sentinel, are in the queue's
\* history.
StreamEnded ==
    /\ streamPc = "closed"
    /\ Len(sent) >= 2
    /\ sent[Len(sent)] = Sentinel
    /\ sent[Len(sent) - 1].event \in {"result", "error"}

\* A step of the consumer leaves the producer's side alone.
ConsumerLeavesProducer ==
    (consPc' # consPc \/ frames' # frames \/ Len(out_queue') < Len(out_queue)) /\ streamPc # "off"
        => UNCHANGED <<streamPc, sent, scraped, current_pct, analysis_done,
                       analysis_result_holder, analysis_error_holder, agentVars>>

\* C28: the producer never waits for the consumer (a step of it is possible
\* in every state of a running stream, whatever the consumer has read), the
\* consumer never changes the producer's state, and, the collaborators
\* returning, a started run ends with the terminal event and the sentinel
\* enqueued even when the consumer stops reading.
C28_ProducerIndependentOfConsumer ==
    /\ [](StreamRunning => ENABLED ProducerStep)
    /\ [][ConsumerLeavesProducer]_vars
    /\ (StreamRunning ~> StreamEnded)

\* The whole run was enqueued, result included, while the consumer read
\* nothing.
C28_Witness ==
    /\ StreamEnded
    /\ consPc = "reading"
    /\ frames = <<>>
    /\ out_queue = sent
    /\ \E i \in DOMAIN sent : sent[i].event = "result"

\* ---------------------------------------------------------------- C30
\* The request was served by /api/analyze, or was rejected by the checks
\* that both endpoints make before anything else.
SyncOver == apiPc[1] = "done" /\ streamPc = "off"

StreamOver == streamPc = "closed"

\* What /api/analyze answers for the run of this state.
SyncAnswer ==
    AnalysisResponse(topic[1], articles[1], results[1], narratives[1], omission_report[1])

SameAnswer(d) ==
    /\ d.topic = SyncAnswer.topic
    /\ d.bias_counts = SyncAnswer.bias_counts
    /\ d.narratives = SyncAnswer.narratives
    /\ d.omission_report = SyncAnswer.omission_report
    /\ d.sources_count = SyncAnswer.sources_count
    /\ d.sources = SyncAnswer.sources

ErrorAt == {i \in DOMAIN sent : sent[i].event = "error"}

\* C30: both endpoints call run_full_analysis with the stripped topic and
\* the retrieved articles, and only when there are articles; each succeeds
\* exactly when that call returned and fails otherwise (an HTTP error, an
\* error event); the data of the stream's result event has the topic,
\* bias_counts, narratives, omission_report, sources_count and sources that
\* the synchronous response has for the same run.
C30_StreamEqualsSync ==
    /\ agPc[1] # "off" /\ apiPc[1] # "idle" => articles[1] # <<>> /\ topic[1] # ""
    /\ SyncOver =>
          /\ response[1].status = 200 <=> agPc[1] = "returned"
          /\ response[1].status = 200 => response[1] = SyncAnswer
    /\ StreamOver =>
          /\ ResultAt # {} <=> agPc[1] = "returned"
          /\ ErrorAt # {} <=> agPc[1] # "returned"
          /\ Cardinality(ResultAt \cup ErrorAt) = 1
    /\ \A i \in ResultAt : SameAnswer(sent[i].data)

\* A stream whose result counts no classification, the inference call of
\* its only article having failed, and lists that article as a source.
C30_Witness ==
    /\ StreamOver
    /\ \E i \in ResultAt :
          /\ sent[i].data.sources_count = 0
          /\ Len(sent[i].data.sources) = 1
          /\ SameAnswer(sent[i].data)

====
